---- MODULE Spec2Model ----
(***************************************************************************)
(* State-machine model of the ALVR server driver glue:                     *)
(*   alvr_server.cpp  - DriverProvider (Init, Cleanup, RunFrame) and the   *)
(*                      exported bindings (InitializeStreaming,            *)
(*                      SetTracking, VideoErrorReportReceive, ...)         *)
(*   OvrHMD.cpp       - OvrHmd (constructor, destructor, Activate,         *)
(*                      Deactivate, OnPoseUpdated, StartStreaming)         *)
(* Every action is one whole handler, executed atomically.  The classes    *)
(* whose bodies are not part of the sources at hand (CEncoder,             *)
(* ClientConnection/Statistics, PoseHistory, OvrController) are modelled   *)
(* from the written specification and are marked as such where defined.    *)
(***************************************************************************)
EXTENDS Integers, Sequences, FiniteSets, TLC

\* ------------------------------------------------------------------ bounds
MaxCount == 2          \* saturation point of the call counters
MaxInits == 2          \* number of OvrHmd objects DriverProvider::Init may create
MaxTs == 3             \* targetTimestampNs values 1..MaxTs
MaxMotions == 2        \* motionsCount of a SetTracking call
HistoryCapacity == 2   \* capacity of PoseHistory
MaxEvents == 2         \* events one RunFrame call drains
MaxMinDuration == 2    \* m_hapticsMinDuration values 0..MaxMinDuration
MaxDuration == 2       \* fDurationSeconds values 0..MaxDuration
MaxBitrate == 3        \* bitrate values 0..MaxBitrate
MaxContexts == 2       \* Vulkan instances / frame contexts held at one time

\* ------------------------------------------------------------- vocabulary
\* The empty shared_ptr / absent value (a record, so that it compares with records).
Null == [absent |-> TRUE]
\* tracked_devices value of a key that was never inserted.
NoEntry == 0
Platforms == {"win32", "macos", "linux"}
HEAD_ID == "HEAD_ID"
LEFT_HAND_ID == "LEFT_HAND_ID"
RIGHT_HAND_ID == "RIGHT_HAND_ID"
OTHER_ID == "OTHER_ID"
DeviceIds == {HEAD_ID, LEFT_HAND_ID, RIGHT_HAND_ID, OTHER_ID}
InvalidIndex == "k_unTrackedDeviceIndexInvalid"
InvalidContainer == "k_ulInvalidPropertyContainer"

Sat(n) == IF n < MaxCount THEN n + 1 ELSE MaxCount

VARIABLES
    platform,            \* build: which #ifdef branch is compiled
    TrackingRefOnly,     \* Settings::m_TrackingRefOnly
    disableController,   \* Settings::m_disableController
    hapticsMinDuration,  \* Settings::m_hapticsMinDuration
    bitrateMinimum,      \* Settings: minimum of the adaptive bitrate
    hmd,                 \* g_driver_provider.hmd: Null or the OvrHmd's fields
    m_Listener,          \* hmd->m_Listener: Null or the ClientConnection
    m_encoder,           \* hmd->m_encoder: Null or the CEncoder
    left_controller,     \* g_driver_provider.left_controller
    right_controller,    \* g_driver_provider.right_controller
    tracked_devices,     \* g_driver_provider.tracked_devices
    inits,               \* number of OvrHmd objects constructed so far
    lastFrame,           \* the frame most recently started by the encoder
    lossSinceFrame,      \* a FEC-failure notice arrived since the last frame
    op,                  \* the handler that ran last
    args,                \* the arguments it was called with
    trace,               \* the calls that handler made, in order
    fault,               \* the absent object a handler dereferenced, if any
    crashed,             \* the process died on such a dereference
    pc,                  \* the binding a second thread is inside of, or "idle"
    local,               \* that binding's arguments and the object it holds
    vkContext,           \* the alvr::VkContext object: Null or its fields
    vkFrameCtx,          \* the alvr::VkFrameCtx object: Null or its fields
    live                 \* per kind, the resources acquired and not released

vars == <<platform, TrackingRefOnly, disableController, hapticsMinDuration,
          bitrateMinimum, hmd, m_Listener, m_encoder, left_controller,
          right_controller, tracked_devices, inits, lastFrame, lossSinceFrame,
          op, args, trace, fault, crashed, pc, local, vkContext,
          vkFrameCtx, live>>

settings == <<platform, TrackingRefOnly, disableController, hapticsMinDuration,
              bitrateMinimum>>
provider == <<hmd, left_controller, right_controller, tracked_devices, inits>>
stream == <<m_Listener, m_encoder, lastFrame, lossSinceFrame>>
health == <<fault, crashed>>
threads == <<pc, local>>
vulkan == <<vkContext, vkFrameCtx, live>>

\* The pose of a default DriverPose_t with qRotation (1, 0, 0, 0), and the
\* poses a motion can carry.
IdentityPose == "identity"
Poses == {IdentityPose, "tilted"}

\* m_deviceClass == TrackedDeviceClass_HMD
IsHMD == ~TrackingRefOnly

\* ------------------------------------------------------------------ OvrHmd
\* OvrHmd::OvrHmd: the fields of a freshly constructed OvrHmd, g its identity.
NewHmd(g) ==
    [gen |-> g,
     object_id |-> InvalidIndex,
     prop_container |-> InvalidContainer,
     m_baseComponentsInitialized |-> FALSE,
     m_streamComponentsInitialized |-> FALSE,
     m_directModeComponent |-> FALSE,
     readyIdle |-> 0,
     m_pose |-> IdentityPose,
     m_poseHistory |-> <<>>,
     m_refreshRateSet |-> FALSE,
     startStreamingCalls |-> 0,
     listenersCreated |-> 0,
     encodersCreated |-> 0,
     encoderStarts |-> 0]

\* OvrController::OvrController, as created by OvrHmd::OvrHmd.
NewController(id, g) ==
    [gen |-> g, device |-> id, object_id |-> InvalidIndex,
     prop_container |-> InvalidContainer]

\* The same with the listener released first.
DestructorTrace_ListenerFirst ==
    <<"ShutdownRuntime">>
    \o (IF m_Listener # Null THEN <<"listener.reset">> ELSE <<>>)
    \o (IF m_encoder # Null THEN <<"encoder.Stop", "encoder.reset">> ELSE <<>>)

\* OvrHmd::~OvrHmd: the calls the destructor makes on the stream components.
DestructorTrace ==
    <<"ShutdownRuntime">>
    \o (IF m_encoder # Null THEN <<"encoder.Stop", "encoder.reset">> ELSE <<>>)
    \o (IF m_Listener # Null THEN <<"listener.reset">> ELSE <<>>)


\* ------------------------------------------- stream components (from spec)
\* ClientConnection::ClientConnection with its Statistics: fixed mode at the
\* configured floor, the ceiling at the largest configurable value.
NewClientConnection ==
    [m_enableAdaptiveBitrate |-> FALSE,
     m_adaptiveBitrateMaximum |-> MaxBitrate,
     m_bitrate |-> bitrateMinimum,
     fecFailures |-> 0]

\* CEncoder::CEncoder: not initialised, not started, no keyframe pending.
NewEncoder ==
    [initFailed |-> FALSE, started |-> FALSE, handedToDirectMode |-> FALSE,
     streamStart |-> FALSE, idr |-> FALSE]

\* ClientConnection::OnFecFailure: the loss is recorded for the loss estimate.
OnFecFailure(l) == [l EXCEPT !.fecFailures = Sat(@)]

\* CEncoder::OnPacketLoss: sets the keyframe-recovery flag for the next cycle.
OnPacketLoss(e) == [e EXCEPT !.idr = TRUE]

\* CEncoder::InsertIDR: forces a keyframe on demand.
InsertIDR(e) == [e EXCEPT !.idr = TRUE]

\* ------------------------------------------------------------ specification
InitDriver ==
    /\ hmd = Null
    /\ m_Listener = Null
    /\ m_encoder = Null
    /\ left_controller = Null
    /\ right_controller = Null
    /\ tracked_devices = [d \in {HEAD_ID, LEFT_HAND_ID, RIGHT_HAND_ID} |-> NoEntry]
    /\ inits = 0
    /\ lastFrame = Null
    /\ lossSinceFrame = FALSE
    /\ op = "CppEntryPoint"
    /\ args = Null
    /\ trace = <<>>
    /\ fault = "none"
    /\ crashed = FALSE
    /\ pc = "idle"
    /\ local = Null
    /\ vkContext = Null
    /\ vkFrameCtx = Null
    /\ live = [instance |-> 0, device |-> 0, hwdevice |-> 0, hwframes |-> 0]

Init ==
    /\ platform \in Platforms
    /\ TrackingRefOnly \in BOOLEAN
    /\ disableController \in BOOLEAN
    /\ hapticsMinDuration = 1
    /\ bitrateMinimum = 1
    /\ InitDriver

\* std::map::insert: an existing key keeps its old value.
MapInsert(m, k, v) == IF m[k] = NoEntry THEN [m EXCEPT ![k] = v] ELSE m

\* DriverProvider::Init
DriverProvider_Init ==
    /\ ~crashed
    /\ inits < MaxInits
    /\ LET g == inits + 1
           l == IF disableController THEN Null ELSE NewController(LEFT_HAND_ID, g)
           r == IF disableController THEN Null ELSE NewController(RIGHT_HAND_ID, g)
           t1 == MapInsert(tracked_devices, HEAD_ID, g)
           t2 == IF l # Null /\ r # Null
                 THEN MapInsert(MapInsert(t1, LEFT_HAND_ID, g), RIGHT_HAND_ID, g)
                 ELSE t1
       IN /\ hmd' = NewHmd(g)
          /\ left_controller' = l
          /\ right_controller' = r
          /\ tracked_devices' = t2
          /\ inits' = g
          \* assigning this->hmd destroys the OvrHmd it held before
          /\ trace' = IF hmd # Null THEN DestructorTrace ELSE <<>>
    /\ m_Listener' = Null
    /\ m_encoder' = Null
    /\ lastFrame' = Null
    /\ lossSinceFrame' = FALSE
    /\ op' = "Init"
    /\ args' = Null
    /\ UNCHANGED <<settings, health>>

\* The same with the destructor's calls made whether or not an OvrHmd is held.
Cleanup_DestroysAgain ==
    /\ ~crashed
    /\ left_controller' = Null
    /\ right_controller' = Null
    /\ hmd' = Null
    /\ m_Listener' = Null
    /\ m_encoder' = Null
    /\ trace' = DestructorTrace
    /\ lastFrame' = Null
    /\ lossSinceFrame' = FALSE
    /\ op' = "Cleanup"
    /\ args' = Null
    /\ UNCHANGED <<settings, tracked_devices, inits, health>>

\* DriverProvider::Cleanup, with OvrHmd::~OvrHmd when it drops the last reference
Cleanup ==
    /\ ~crashed
    /\ left_controller' = Null
    /\ right_controller' = Null
    /\ hmd' = Null
    /\ m_Listener' = Null
    /\ m_encoder' = Null
    /\ trace' = IF hmd # Null THEN DestructorTrace ELSE <<>>
    /\ lastFrame' = Null
    /\ lossSinceFrame' = FALSE
    /\ op' = "Cleanup"
    /\ args' = Null
    /\ UNCHANGED <<settings, tracked_devices, inits, health>>

ContainerOf(id) ==
    CASE id = HEAD_ID -> "container_head"
      [] id = LEFT_HAND_ID -> "container_left"
      [] id = RIGHT_HAND_ID -> "container_right"
      [] OTHER -> "container_other"

IndexOf(id) ==
    CASE id = HEAD_ID -> "index_head"
      [] id = LEFT_HAND_ID -> "index_left"
      [] id = RIGHT_HAND_ID -> "index_right"
      [] OTHER -> "index_other"

\* OvrHmd::Activate.  On win32 the graphics device set-up of the first
\* activation can fail, and the method then returns before DriverReadyIdle.
Activate ==
    /\ ~crashed
    /\ hmd # Null
    /\ \E d3dOk \in (IF platform = "win32" /\ IsHMD
                        /\ ~hmd.m_baseComponentsInitialized
                     THEN BOOLEAN ELSE {TRUE}) :
        LET h0 == [hmd EXCEPT !.object_id = IndexOf(HEAD_ID),
                              !.prop_container = ContainerOf(HEAD_ID)]
        IN IF ~h0.m_baseComponentsInitialized
           THEN IF d3dOk
                THEN /\ hmd' = [h0 EXCEPT !.m_baseComponentsInitialized = TRUE,
                                  !.m_directModeComponent =
                                      (IsHMD /\ platform = "win32"),
                                  !.readyIdle = Sat(@)]
                     /\ trace' = <<"DriverReadyIdle", "VRInitError_None">>
                ELSE /\ hmd' = [h0 EXCEPT !.m_baseComponentsInitialized = TRUE]
                     /\ trace' = <<"Error", "VRInitError_Driver_Failed">>
           ELSE /\ hmd' = h0
                /\ trace' = <<"VRInitError_None">>
    /\ op' = "Activate"
    /\ args' = Null
    /\ UNCHANGED <<settings, left_controller, right_controller, tracked_devices,
                   inits, stream, health>>

\* OvrHmd::Deactivate
Deactivate ==
    /\ ~crashed
    /\ hmd # Null
    /\ hmd' = [hmd EXCEPT !.object_id = InvalidIndex,
                          !.prop_container = InvalidContainer]
    /\ op' = "Deactivate"
    /\ args' = Null
    /\ trace' = <<>>
    /\ UNCHANGED <<settings, left_controller, right_controller, tracked_devices,
                   inits, stream, health>>


\* ------------------------------------------------------------- streaming
\* OvrHmd::StartStreaming past its early return: the listener is created, and
\* for an HMD the encoder is created and started the way the platform's branch
\* does it.  initThrows: CEncoder::Initialize throws (win32 branch only; the
\* exception is caught, reported with Error, and execution goes on).
\* dies: the process dies on m_directModeComponent->SetEncoder when
\* Activate has not created the direct-mode component (win32 branch only).
StartStreamingBody(initThrows, dies) ==
    LET win == IsHMD /\ platform = "win32"
        noDmc == win /\ ~hmd.m_directModeComponent
        enc == IF ~IsHMD THEN Null
               ELSE CASE platform = "win32" ->
                         [NewEncoder EXCEPT !.initFailed = initThrows,
                                            !.started = TRUE,
                                            !.handedToDirectMode = ~noDmc,
                                            !.streamStart = ~dies]
                      [] platform = "macos" -> NewEncoder
                      [] OTHER -> [NewEncoder EXCEPT !.started = TRUE]
    IN /\ m_Listener' = NewClientConnection
       /\ m_encoder' = enc
       /\ hmd' = [hmd EXCEPT !.startStreamingCalls = Sat(@),
                             !.listenersCreated = Sat(@),
                             !.encodersCreated = IF IsHMD THEN Sat(@) ELSE @,
                             !.encoderStarts =
                                 IF IsHMD /\ platform # "macos" THEN Sat(@) ELSE @,
                             !.m_streamComponentsInitialized = ~dies]
       /\ trace' = <<"new ClientConnection">>
                   \o (IF IsHMD THEN <<"new CEncoder">> ELSE <<>>)
                   \o (IF win THEN <<"Initialize">> ELSE <<>>)
                   \o (IF win /\ initThrows THEN <<"Error">> ELSE <<>>)
                   \o (IF IsHMD /\ platform # "macos" THEN <<"Start">> ELSE <<>>)
                   \o (IF win THEN <<"SetEncoder">> ELSE <<>>)
                   \o (IF win /\ ~dies THEN <<"OnStreamStart">> ELSE <<>>)
       /\ fault' = IF noDmc THEN "m_directModeComponent" ELSE fault
       /\ crashed' = dies
       /\ lastFrame' = Null
       /\ lossSinceFrame' = FALSE

\* The same without the m_streamComponentsInitialized early return.
StartStreaming_NoGuard ==
    \E initThrows \in (IF IsHMD /\ platform = "win32" THEN BOOLEAN ELSE {FALSE}),
       dies \in (IF IsHMD /\ platform = "win32" /\ ~hmd.m_directModeComponent
                 THEN BOOLEAN ELSE {FALSE}) :
        StartStreamingBody(initThrows, dies)

\* OvrHmd::StartStreaming
StartStreaming ==
    IF hmd.m_streamComponentsInitialized
    THEN /\ hmd' = [hmd EXCEPT !.startStreamingCalls = Sat(@)]
         /\ trace' = <<>>
         /\ UNCHANGED <<stream, health>>
    ELSE \E initThrows \in (IF IsHMD /\ platform = "win32" THEN BOOLEAN ELSE {FALSE}),
            dies \in (IF IsHMD /\ platform = "win32" /\ ~hmd.m_directModeComponent
                      THEN BOOLEAN ELSE {FALSE}) :
             StartStreamingBody(initThrows, dies)

\* InitializeStreaming (binding)
InitializeStreaming ==
    /\ ~crashed
    /\ IF hmd # Null
       THEN StartStreaming
       ELSE /\ trace' = <<>>
            /\ UNCHANGED <<hmd, stream, health>>
    /\ op' = "InitializeStreaming"
    /\ args' = Null
    /\ UNCHANGED <<settings, left_controller, right_controller, tracked_devices,
                   inits>>

\* The same without the forwarding to the encoder.
VideoErrorReportReceive_NoPacketLoss ==
    /\ ~crashed
    /\ IF hmd # Null /\ m_Listener # Null
       THEN /\ m_Listener' = OnFecFailure(m_Listener)
            /\ trace' = <<"OnFecFailure">>
            /\ lossSinceFrame' = (m_encoder # Null /\ m_encoder.started)
       ELSE /\ trace' = <<>>
            /\ UNCHANGED <<m_Listener, lossSinceFrame>>
    /\ op' = "VideoErrorReportReceive"
    /\ args' = Null
    /\ UNCHANGED <<settings, provider, m_encoder, lastFrame, health>>

\* VideoErrorReportReceive (binding).  m_encoder is dereferenced without a
\* check: with a listener and no encoder that is a use of an empty shared_ptr,
\* after which the process either dies or goes on.
VideoErrorReportReceive ==
    /\ ~crashed
    /\ IF hmd # Null /\ m_Listener # Null
       THEN /\ m_Listener' = OnFecFailure(m_Listener)
            /\ IF m_encoder # Null
               THEN /\ m_encoder' = OnPacketLoss(m_encoder)
                    /\ trace' = <<"OnFecFailure", "OnPacketLoss">>
                    /\ lossSinceFrame' = m_encoder.started
                    /\ UNCHANGED health
               ELSE /\ trace' = <<"OnFecFailure">>
                    /\ fault' = "m_encoder"
                    /\ crashed' \in BOOLEAN
                    /\ UNCHANGED <<m_encoder, lossSinceFrame>>
       ELSE /\ trace' = <<>>
            /\ UNCHANGED <<m_Listener, m_encoder, lossSinceFrame, health>>
    /\ op' = "VideoErrorReportReceive"
    /\ args' = Null
    /\ UNCHANGED <<settings, provider, lastFrame>>

\* CaptureFrame (binding) with CEncoder::CaptureFrame: a started encoder begins
\* the next frame; the frame is a keyframe when the recovery flag is set or
\* the normal cadence (cadenceKey) asks for one, and the flag is consumed.
CaptureFrame ==
    /\ ~crashed
    /\ IF platform # "macos" /\ hmd # Null /\ m_encoder # Null
       THEN IF m_encoder.started
            THEN \E cadenceKey \in BOOLEAN :
                   /\ lastFrame' = [isKeyframeRequested |-> (m_encoder.idr \/ cadenceKey),
                                    afterLoss |-> lossSinceFrame]
                   /\ m_encoder' = [m_encoder EXCEPT !.idr = FALSE]
                   /\ lossSinceFrame' = FALSE
                   /\ trace' = <<"encoder.CaptureFrame", "frame">>
            ELSE /\ trace' = <<"encoder.CaptureFrame">>
                 /\ UNCHANGED <<m_encoder, lastFrame, lossSinceFrame>>
       ELSE /\ trace' = <<>>
            /\ UNCHANGED <<m_encoder, lastFrame, lossSinceFrame>>
    /\ op' = "CaptureFrame"
    /\ args' = Null
    /\ UNCHANGED <<settings, provider, m_Listener, health>>

\* RequestIDR (binding)
RequestIDR ==
    /\ ~crashed
    /\ IF hmd # Null /\ m_encoder # Null
       THEN /\ m_encoder' = InsertIDR(m_encoder)
            /\ trace' = <<"InsertIDR">>
       ELSE /\ trace' = <<>>
            /\ UNCHANGED m_encoder
    /\ op' = "RequestIDR"
    /\ args' = Null
    /\ UNCHANGED <<settings, provider, m_Listener, lastFrame, lossSinceFrame, health>>

\* ------------------------------------------------------------------ poses
\* PoseHistory::OnPoseUpdated (from the spec's record): a sample is kept only
\* when its timestamp is strictly greater than the latest recorded one; the
\* buffer holds the last HistoryCapacity samples.
LatestTimestamp(hist) == IF hist = <<>> THEN 0 ELSE hist[Len(hist)].ts

PoseHistory_OnPoseUpdated(hist, ts, pose) ==
    IF ts > LatestTimestamp(hist)
    THEN LET h == Append(hist, [ts |-> ts, pose |-> pose])
         IN IF Len(h) > HistoryCapacity THEN Tail(h) ELSE h
    ELSE hist

\* The same without the test of object_id.
OvrHmd_OnPoseUpdated_Ungated(h, ts, pose, connected) ==
    [h EXCEPT !.m_pose = pose,
              !.m_poseHistory = PoseHistory_OnPoseUpdated(@, ts, pose),
              !.m_refreshRateSet =
                  @ \/ (platform = "linux" /\ m_encoder # Null /\ connected)]

\* OvrHmd::OnPoseUpdated: the fields of the OvrHmd after the call.
\* connected: m_encoder->IsConnected() (read in the linux branch only).
OvrHmd_OnPoseUpdated(h, ts, pose, connected) ==
    IF h.object_id # InvalidIndex
    THEN [h EXCEPT !.m_pose = pose,
                   !.m_poseHistory = PoseHistory_OnPoseUpdated(@, ts, pose),
                   !.m_refreshRateSet =
                       @ \/ (platform = "linux" /\ m_encoder # Null /\ connected)]
    ELSE h

\* OvrHmd::OnPoseUpdated: the calls it makes.
OvrHmd_OnPoseUpdated_Calls(h) ==
    IF h.object_id # InvalidIndex
    THEN <<"hmd.OnPoseUpdated", "PoseHistory.OnPoseUpdated",
           "TrackedDevicePoseUpdated">>
    ELSE <<"hmd.OnPoseUpdated">>

\* The same with the two hands exchanged.
RouteMotion_HandsSwapped(deviceID) ==
    IF deviceID = HEAD_ID /\ hmd # Null THEN "hmd"
    ELSE IF deviceID = LEFT_HAND_ID /\ right_controller # Null THEN "right"
    ELSE IF deviceID = RIGHT_HAND_ID /\ left_controller # Null THEN "left"
    ELSE "none"

\* The if / else chain of SetTracking's loop body: the sink of one motion.
RouteMotion(deviceID) ==
    IF deviceID = HEAD_ID /\ hmd # Null THEN "hmd"
    ELSE IF deviceID = LEFT_HAND_ID /\ left_controller # Null THEN "left"
    ELSE IF deviceID = RIGHT_HAND_ID /\ right_controller # Null THEN "right"
    ELSE "none"

\* SetTracking's loop from motion i on: the OvrHmd's fields and the calls made.
RECURSIVE TrackingLoop(_, _, _, _, _)
TrackingLoop(acc, ts, motions, i, connected) ==
    IF i > Len(motions) THEN acc
    ELSE LET sink == RouteMotion(motions[i].deviceID)
             next ==
                 CASE sink = "hmd" ->
                        [h |-> OvrHmd_OnPoseUpdated(acc.h, ts, motions[i].pose,
                                                    connected),
                         calls |-> acc.calls \o OvrHmd_OnPoseUpdated_Calls(acc.h)]
                   [] sink = "left" ->
                        [acc EXCEPT !.calls = Append(@, "left.onPoseUpdate")]
                   [] sink = "right" ->
                        [acc EXCEPT !.calls = Append(@, "right.onPoseUpdate")]
                   [] OTHER -> acc
         IN TrackingLoop(next, ts, motions, i + 1, connected)

\* The deviceMotions arrays a call can carry: only a head motion's pose is
\* read by the driver, a hand's goes to its controller as is.
Motions ==
    {[deviceID |-> HEAD_ID, pose |-> p] : p \in Poses}
    \cup {[deviceID |-> d, pose |-> IdentityPose] : d \in DeviceIds \ {HEAD_ID}}

MotionArrays == UNION {[1..n -> Motions] : n \in 0..MaxMotions}

\* The arrays that carry head motions only.
HeadMotionArrays ==
    {m \in MotionArrays : \A i \in 1..Len(m) : m[i].deviceID = HEAD_ID}

DeviceIdsOf(motions) == [i \in 1..Len(motions) |-> motions[i].deviceID]

PosesOf(motions) == [i \in 1..Len(motions) |-> motions[i].pose]

\* SetTracking (binding)
SetTracking(ts, motions) ==
    /\ ~crashed
    /\ \E connected \in (IF platform = "linux" /\ hmd # Null /\ m_encoder # Null
                            /\ ~hmd.m_refreshRateSet
                         THEN BOOLEAN ELSE {FALSE}) :
        LET r == TrackingLoop([h |-> hmd, calls |-> <<>>], ts, motions, 1, connected)
        IN /\ hmd' = r.h
           /\ trace' = r.calls
    /\ op' = "SetTracking"
    /\ args' = [ts |-> ts, ids |-> DeviceIdsOf(motions),
                poses |-> PosesOf(motions)]
    /\ UNCHANGED <<settings, left_controller, right_controller, tracked_devices,
                   inits, stream, health>>

Next ==
    \/ /\ DriverProvider_Init
       /\ UNCHANGED <<threads, vulkan>>
    \/ /\ Cleanup
       /\ UNCHANGED <<threads, vulkan>>
    \/ /\ Activate
       /\ UNCHANGED <<threads, vulkan>>
    \/ /\ Deactivate
       /\ UNCHANGED <<threads, vulkan>>
    \/ /\ InitializeStreaming
       /\ UNCHANGED <<threads, vulkan>>
    \/ /\ VideoErrorReportReceive
       /\ UNCHANGED <<threads, vulkan>>
    \/ /\ CaptureFrame
       /\ UNCHANGED <<threads, vulkan>>
    \/ /\ RequestIDR
       /\ UNCHANGED <<threads, vulkan>>

Spec == Init /\ [][Next]_vars


\* Head-pose ingestion: deliveries of head motions with every timestamp.
InitPose ==
    /\ platform \in Platforms
    /\ TrackingRefOnly = FALSE
    /\ disableController \in BOOLEAN
    /\ hapticsMinDuration = 1
    /\ bitrateMinimum = 1
    /\ InitDriver

NextPose ==
    \/ /\ DriverProvider_Init
       /\ UNCHANGED <<threads, vulkan>>
    \/ /\ Cleanup
       /\ UNCHANGED <<threads, vulkan>>
    \/ /\ Activate
       /\ UNCHANGED <<threads, vulkan>>
    \/ /\ Deactivate
       /\ UNCHANGED <<threads, vulkan>>
    \/ /\ \E ts \in 1..MaxTs, motions \in HeadMotionArrays : SetTracking(ts, motions)
       /\ UNCHANGED <<threads, vulkan>>

SpecPose == InitPose /\ [][NextPose]_vars

\* Pose routing: deliveries of every array, all at one timestamp.
NextRoute ==
    \/ /\ DriverProvider_Init
       /\ UNCHANGED <<threads, vulkan>>
    \/ /\ Cleanup
       /\ UNCHANGED <<threads, vulkan>>
    \/ /\ Activate
       /\ UNCHANGED <<threads, vulkan>>
    \/ /\ Deactivate
       /\ UNCHANGED <<threads, vulkan>>
    \/ /\ \E motions \in MotionArrays : SetTracking(1, motions)
       /\ UNCHANGED <<threads, vulkan>>

SpecRoute == InitPose /\ [][NextRoute]_vars

\* ---------------------------------------------------------------- haptics
LEFT_CONTROLLER_HAPTIC_ID == "LEFT_CONTROLLER_HAPTIC_ID"
RIGHT_CONTROLLER_HAPTIC_ID == "RIGHT_CONTROLLER_HAPTIC_ID"
HapticVibration == "VREvent_Input_HapticVibration"

\* OvrController::Activate (from the spec's DeviceRecord): the controller
\* learns its object id and its property container from the host.
Controller_Activate(side) ==
    /\ ~crashed
    /\ IF side = LEFT_HAND_ID
       THEN /\ left_controller # Null
            /\ left_controller' =
                  [left_controller EXCEPT !.object_id = IndexOf(side),
                                          !.prop_container = ContainerOf(side)]
            /\ UNCHANGED right_controller
       ELSE /\ right_controller # Null
            /\ right_controller' =
                  [right_controller EXCEPT !.object_id = IndexOf(side),
                                           !.prop_container = ContainerOf(side)]
            /\ UNCHANGED left_controller
    /\ op' = "Controller_Activate"
    /\ args' = Null
    /\ trace' = <<>>
    /\ UNCHANGED <<settings, hmd, tracked_devices, inits, stream, health>>

\* Durations are exact fractions num / den of the unit of m_hapticsMinDuration;
\* nan is the result of 0.0 / 0.0.
Fraction(n, d) == [kind |-> "finite", num |-> n, den |-> d]
NaN == [kind |-> "nan"]

\* RunFrame, lines 103-107 and 126-127: the duration sent for an event of
\* duration fDurationSeconds.  A duration below half the minimum is raised to
\* half the minimum, then duration = min^2 * 0.25 / duration + duration.
ShapeDuration(fDurationSeconds) ==
    LET min == hapticsMinDuration
        floored == IF 2 * fDurationSeconds < min
                   THEN Fraction(min, 2)
                   ELSE Fraction(fDurationSeconds, 1)
        n == floored.num
        d == floored.den
    IN IF n = 0
       THEN NaN   \* min = 0 and duration = 0: 0.0 / 0.0 + 0.0
       ELSE Fraction(min * min * d * d + 4 * n * n, 4 * n * d)

\* The same with the second branch sending to the left controller's id.
HapticTarget_LeftTwice(containerHandle) ==
    IF left_controller # Null /\ containerHandle = left_controller.prop_container
    THEN LEFT_CONTROLLER_HAPTIC_ID
    ELSE IF right_controller # Null
            /\ containerHandle = right_controller.prop_container
         THEN LEFT_CONTROLLER_HAPTIC_ID
         ELSE "none"

\* RunFrame, lines 129-137: the haptic id an event is sent to, if any.
HapticTarget(containerHandle) ==
    IF left_controller # Null /\ containerHandle = left_controller.prop_container
    THEN LEFT_CONTROLLER_HAPTIC_ID
    ELSE IF right_controller # Null
            /\ containerHandle = right_controller.prop_container
         THEN RIGHT_CONTROLLER_HAPTIC_ID
         ELSE "none"

\* RunFrame's loop from event i on: the HapticsSend calls made.
RECURSIVE DrainEvents(_, _, _)
DrainEvents(sends, events, i) ==
    IF i > Len(events) THEN sends
    ELSE LET e == events[i]
             target == HapticTarget(e.containerHandle)
             sent == IF e.eventType = HapticVibration /\ target # "none"
                     THEN Append(sends,
                                 [event |-> i, path |-> target,
                                  duration |-> ShapeDuration(e.fDurationSeconds)])
                     ELSE sends
         IN DrainEvents(sent, events, i + 1)

\* The events the host queues: haptic vibrations carry the property container
\* of the device whose haptic component they address, which is a valid handle.
HapticHandles == {ContainerOf(d) : d \in DeviceIds}

HostEvents(handles, durations) ==
    {[eventType |-> HapticVibration, containerHandle |-> c, fDurationSeconds |-> t] :
        c \in handles, t \in durations}
    \cup {[eventType |-> "VREvent_Other", containerHandle |-> InvalidContainer,
           fDurationSeconds |-> 0]}

EventQueues(events) == UNION {[1..n -> events] : n \in 0..MaxEvents}

\* DriverProvider::RunFrame
RunFrame(events) ==
    /\ ~crashed
    /\ op' = "RunFrame"
    /\ args' = events
    /\ trace' = DrainEvents(<<>>, events, 1)
    /\ UNCHANGED <<settings, provider, stream, health>>

\* Haptic routing: zero-duration pulses for every container.
InitHaptic ==
    /\ platform \in Platforms
    /\ TrackingRefOnly = FALSE
    /\ disableController \in BOOLEAN
    /\ hapticsMinDuration \in 0..MaxMinDuration
    /\ bitrateMinimum = 1
    /\ InitDriver

NextHapticRoute ==
    \/ /\ DriverProvider_Init
       /\ UNCHANGED <<threads, vulkan>>
    \/ /\ Cleanup
       /\ UNCHANGED <<threads, vulkan>>
    \/ /\ \E side \in {LEFT_HAND_ID, RIGHT_HAND_ID} : Controller_Activate(side)
       /\ UNCHANGED <<threads, vulkan>>
    \/ /\ \E events \in EventQueues(HostEvents(HapticHandles, {0})) : RunFrame(events)
       /\ UNCHANGED <<threads, vulkan>>

SpecHapticRoute == InitHaptic /\ [][NextHapticRoute]_vars

\* Haptic shaping: pulses of every duration for the left controller's
\* container and for a container that is no controller's.
NextHaptic ==
    \/ /\ DriverProvider_Init
       /\ UNCHANGED <<threads, vulkan>>
    \/ /\ Cleanup
       /\ UNCHANGED <<threads, vulkan>>
    \/ /\ \E side \in {LEFT_HAND_ID, RIGHT_HAND_ID} : Controller_Activate(side)
       /\ UNCHANGED <<threads, vulkan>>
    \/ /\ \E events \in EventQueues(HostEvents({ContainerOf(LEFT_HAND_ID),
                                                ContainerOf(OTHER_ID)},
                                               0..MaxDuration)) : RunFrame(events)
       /\ UNCHANGED <<threads, vulkan>>

SpecHaptic == InitHaptic /\ [][NextHaptic]_vars

\* ---------------------------------------------------------------- bitrate
Clamp(b, lo, hi) == IF b < lo THEN lo ELSE IF b > hi THEN hi ELSE b

\* ClientConnection::ReportNetworkLatency (from the spec's BitrateController):
\* in adaptive mode the bitrate is lowered multiplicatively on high latency or
\* after a recorded loss and raised additively otherwise, then clamped to
\* [minimum, m_adaptiveBitrateMaximum]; the floor wins over a lower ceiling.
ClientConnection_ReportNetworkLatency(l, high) ==
    IF l.m_enableAdaptiveBitrate
    THEN LET adjusted == IF high \/ l.fecFailures > 0
                         THEN l.m_bitrate \div 2
                         ELSE l.m_bitrate + 1
             ceiling == IF l.m_adaptiveBitrateMaximum < bitrateMinimum
                        THEN bitrateMinimum
                        ELSE l.m_adaptiveBitrateMaximum
         IN [l EXCEPT !.m_bitrate = Clamp(adjusted, bitrateMinimum, ceiling),
                      !.fecFailures = 0]
    ELSE l

\* ReportNetworkLatency (binding); high: latencyUs is above the high-water mark.
ReportNetworkLatency(high) ==
    /\ ~crashed
    /\ IF hmd # Null /\ m_Listener # Null
       THEN /\ m_Listener' = ClientConnection_ReportNetworkLatency(m_Listener, high)
            /\ trace' = <<"ReportNetworkLatency">>
       ELSE /\ trace' = <<>>
            /\ UNCHANGED m_Listener
    /\ op' = "ReportNetworkLatency"
    /\ args' = [high |-> high]
    /\ UNCHANGED <<settings, provider, m_encoder, lastFrame, lossSinceFrame,
                   health>>

\* The same with the adaptive branch storing the fixed bitrate as well.
SetBitrateParameters_BothValues(bitrate_mbs, adaptive_bitrate_enabled, bitrate_max) ==
    /\ ~crashed
    /\ IF hmd # Null /\ m_Listener # Null
       THEN IF adaptive_bitrate_enabled
            THEN m_Listener' = [m_Listener EXCEPT
                                    !.m_enableAdaptiveBitrate = TRUE,
                                    !.m_adaptiveBitrateMaximum = bitrate_max,
                                    !.m_bitrate = bitrate_mbs]
            ELSE m_Listener' = [m_Listener EXCEPT
                                    !.m_enableAdaptiveBitrate = FALSE,
                                    !.m_bitrate = bitrate_mbs]
       ELSE UNCHANGED m_Listener
    /\ op' = "SetBitrateParameters"
    /\ args' = [bitrate_mbs |-> bitrate_mbs,
                adaptive_bitrate_enabled |-> adaptive_bitrate_enabled,
                bitrate_max |-> bitrate_max]
    /\ trace' = <<>>
    /\ UNCHANGED <<settings, provider, m_encoder, lastFrame, lossSinceFrame,
                   health>>

\* SetBitrateParameters (binding)
SetBitrateParameters(bitrate_mbs, adaptive_bitrate_enabled, bitrate_max) ==
    /\ ~crashed
    /\ IF hmd # Null /\ m_Listener # Null
       THEN IF adaptive_bitrate_enabled
            THEN m_Listener' = [m_Listener EXCEPT
                                    !.m_enableAdaptiveBitrate = TRUE,
                                    !.m_adaptiveBitrateMaximum = bitrate_max]
            ELSE m_Listener' = [m_Listener EXCEPT
                                    !.m_enableAdaptiveBitrate = FALSE,
                                    !.m_bitrate = bitrate_mbs]
       ELSE UNCHANGED m_Listener
    /\ op' = "SetBitrateParameters"
    /\ args' = [bitrate_mbs |-> bitrate_mbs,
                adaptive_bitrate_enabled |-> adaptive_bitrate_enabled,
                bitrate_max |-> bitrate_max]
    /\ trace' = <<>>
    /\ UNCHANGED <<settings, provider, m_encoder, lastFrame, lossSinceFrame,
                   health>>

\* Bitrate control: the operator's values are at or above the configured floor.
InitBitrate ==
    /\ platform = "linux"
    /\ TrackingRefOnly = FALSE
    /\ disableController = FALSE
    /\ hapticsMinDuration = 1
    /\ bitrateMinimum = 1
    /\ InitDriver

NextBitrate ==
    \/ /\ DriverProvider_Init
       /\ UNCHANGED <<threads, vulkan>>
    \/ /\ Cleanup
       /\ UNCHANGED <<threads, vulkan>>
    \/ /\ InitializeStreaming
       /\ UNCHANGED <<threads, vulkan>>
    \/ /\ VideoErrorReportReceive
       /\ UNCHANGED <<threads, vulkan>>
    \/ /\ \E high \in BOOLEAN : ReportNetworkLatency(high)
       /\ UNCHANGED <<threads, vulkan>>
    \/ /\ \E b \in bitrateMinimum..MaxBitrate, a \in BOOLEAN,
             m \in bitrateMinimum..MaxBitrate : SetBitrateParameters(b, a, m)
       /\ UNCHANGED <<threads, vulkan>>

SpecBitrate == InitBitrate /\ [][NextBitrate]_vars

\* ----------------------------------------------------------- device table
\* std::map::find on tracked_devices: the key is there.
Registered(path) ==
    path \in DOMAIN tracked_devices /\ tracked_devices[path] # NoEntry

\* The device object the driver holds for an id, if any.
DeviceAt(id) ==
    CASE id = HEAD_ID -> hmd
      [] id = LEFT_HAND_ID -> left_controller
      [] id = RIGHT_HAND_ID -> right_controller
      [] OTHER -> Null

\* The TrackedDevice* stored under path points at a device that still exists.
Alive(path) ==
    /\ Registered(path)
    /\ DeviceAt(path) # Null
    /\ DeviceAt(path).gen = tracked_devices[path]

\* What a read through a pointer to a destroyed device can yield.
StaleContainers == HapticHandles \cup {InvalidContainer}

\* SetOpenvrProperty (binding).  A pointer to a destroyed device is used as
\* it is: the process then either dies or calls set_prop on freed memory.
SetOpenvrProperty(top_level_path, prop) ==
    /\ ~crashed
    /\ IF Registered(top_level_path)
       THEN /\ trace' = <<[call |-> "set_prop", device |-> top_level_path,
                           gen |-> tracked_devices[top_level_path],
                           prop |-> prop]>>
            /\ IF Alive(top_level_path)
               THEN UNCHANGED health
               ELSE /\ fault' = "tracked_devices"
                    /\ crashed' \in BOOLEAN
       ELSE /\ trace' = <<>>
            /\ UNCHANGED health
    /\ op' = "SetOpenvrProperty"
    /\ args' = [path |-> top_level_path, prop |-> prop]
    /\ UNCHANGED <<settings, provider, stream>>

\* The two host calls of SetBattery for property container c.
BatteryCalls(c, gauge_value, is_plugged) ==
    <<[call |-> "SetFloatProperty", container |-> c,
       prop |-> "Prop_DeviceBatteryPercentage_Float", value |-> gauge_value],
      [call |-> "SetBoolProperty", container |-> c,
       prop |-> "Prop_DeviceIsCharging_Bool", value |-> is_plugged]>>

\* SetBattery (binding).  prop_container is read through the stored pointer;
\* through a pointer to a destroyed device that read yields whatever the
\* freed memory holds, or the process dies.
SetBattery(top_level_path, gauge_value, is_plugged) ==
    /\ ~crashed
    /\ IF Registered(top_level_path)
       THEN IF Alive(top_level_path)
            THEN /\ trace' = BatteryCalls(DeviceAt(top_level_path).prop_container,
                                          gauge_value, is_plugged)
                 /\ UNCHANGED health
            ELSE /\ \E c \in StaleContainers :
                      trace' = BatteryCalls(c, gauge_value, is_plugged)
                 /\ fault' = "tracked_devices"
                 /\ crashed' \in BOOLEAN
       ELSE /\ trace' = <<>>
            /\ UNCHANGED health
    /\ op' = "SetBattery"
    /\ args' = [path |-> top_level_path, gauge_value |-> gauge_value,
                is_plugged |-> is_plugged]
    /\ UNCHANGED <<settings, provider, stream>>

\* The battery gauges a client reports.
Gauges == {"half", "full"}

NextDevices ==
    \/ /\ DriverProvider_Init
       /\ UNCHANGED <<threads, vulkan>>
    \/ /\ Cleanup
       /\ UNCHANGED <<threads, vulkan>>
    \/ /\ Activate
       /\ UNCHANGED <<threads, vulkan>>
    \/ /\ \E side \in {LEFT_HAND_ID, RIGHT_HAND_ID} : Controller_Activate(side)
       /\ UNCHANGED <<threads, vulkan>>
    \/ /\ \E path \in DeviceIds : SetOpenvrProperty(path, "prop")
       /\ UNCHANGED <<threads, vulkan>>
    \/ /\ \E path \in DeviceIds, g \in Gauges, plugged \in BOOLEAN :
            SetBattery(path, g, plugged)
       /\ UNCHANGED <<threads, vulkan>>

SpecDevices == InitHaptic /\ [][NextDevices]_vars

\* ---------------------------------------------------------------- buttons
\* The button paths of the two controllers, and a path that is neither's.
LEFT_CONTROLLER_BUTTON_IDS == {"left_button"}
RIGHT_CONTROLLER_BUTTON_IDS == {"right_button"}
ButtonPaths ==
    LEFT_CONTROLLER_BUTTON_IDS \cup RIGHT_CONTROLLER_BUTTON_IDS \cup {"other_path"}

\* SetButton (binding).  The controller pointer is not tested: with no
\* controller the call goes through an empty shared_ptr, after which the
\* process either dies or goes on.
SetButton(path, value) ==
    /\ ~crashed
    /\ IF path \in LEFT_CONTROLLER_BUTTON_IDS
       THEN IF left_controller # Null
            THEN /\ trace' = <<[call |-> "left_controller.SetButton",
                                path |-> path, value |-> value]>>
                 /\ UNCHANGED health
            ELSE /\ trace' = <<>>
                 /\ fault' = "left_controller"
                 /\ crashed' \in BOOLEAN
       ELSE IF path \in RIGHT_CONTROLLER_BUTTON_IDS
            THEN IF right_controller # Null
                 THEN /\ trace' = <<[call |-> "right_controller.SetButton",
                                     path |-> path, value |-> value]>>
                      /\ UNCHANGED health
                 ELSE /\ trace' = <<>>
                      /\ fault' = "right_controller"
                      /\ crashed' \in BOOLEAN
            ELSE /\ trace' = <<>>
                 /\ UNCHANGED health
    /\ op' = "SetButton"
    /\ args' = [path |-> path, value |-> value]
    /\ UNCHANGED <<settings, provider, stream>>

NextButtons ==
    \/ /\ DriverProvider_Init
       /\ UNCHANGED <<threads, vulkan>>
    \/ /\ Cleanup
       /\ UNCHANGED <<threads, vulkan>>
    \/ /\ \E path \in ButtonPaths, value \in {"pressed", "released"} :
            SetButton(path, value)
       /\ UNCHANGED <<threads, vulkan>>

SpecButtons == Init /\ [][NextButtons]_vars

\* ------------------------------------------------------------ two threads
\* The bindings and the host's callbacks take no lock: while one thread is
\* inside a binding (pc, local), another thread runs its own handlers on the
\* same objects.

\* m_pose while the struct assignment of line 324 has copied only a part of
\* the new pose over a different old one.
TornPose == "torn"

HalfCopied(old, new) == IF old = new THEN old ELSE TornPose

\* The same returning a pose other than the stored one.
GetPose_Extrapolated ==
    /\ ~crashed
    /\ hmd # Null
    /\ op' = "GetPose"
    /\ args' = Null
    /\ trace' = <<"tilted">>
    /\ UNCHANGED <<settings, provider, stream, health>>

\* OvrHmd::GetPose: returns a copy of m_pose as it is at the moment.
GetPose ==
    /\ ~crashed
    /\ hmd # Null
    /\ op' = "GetPose"
    /\ args' = Null
    /\ trace' = <<hmd.m_pose>>
    /\ UNCHANGED <<settings, provider, stream, health>>

\* OvrHmd::OnPoseUpdated of an activated OvrHmd, lines 308-324, up to the
\* middle of the assignment to m_pose.
OnPoseUpdated_Begin(ts, pose) ==
    /\ ~crashed
    /\ pc = "idle"
    /\ hmd # Null
    /\ hmd.object_id # InvalidIndex
    /\ hmd' = [hmd EXCEPT !.m_pose = HalfCopied(@, pose)]
    /\ pc' = "OnPoseUpdated"
    /\ UNCHANGED vulkan
    /\ local' = [ts |-> ts, pose |-> pose]
    /\ op' = "OnPoseUpdated"
    /\ args' = [ts |-> ts, pose |-> pose]
    /\ trace' = <<"hmd.OnPoseUpdated">>
    /\ UNCHANGED <<settings, left_controller, right_controller, tracked_devices,
                   inits, stream, health>>

\* OvrHmd::OnPoseUpdated, the rest of line 324 and lines 326-345.
OnPoseUpdated_End ==
    /\ ~crashed
    /\ pc = "OnPoseUpdated"
    /\ hmd # Null
    /\ \E connected \in (IF platform = "linux" /\ m_encoder # Null
                            /\ ~hmd.m_refreshRateSet
                         THEN BOOLEAN ELSE {FALSE}) :
         hmd' = OvrHmd_OnPoseUpdated(hmd, local.ts, local.pose, connected)
    /\ pc' = "idle"
    /\ UNCHANGED vulkan
    /\ local' = Null
    /\ op' = "OnPoseUpdated"
    /\ args' = local
    /\ trace' = OvrHmd_OnPoseUpdated_Calls(hmd)
    /\ UNCHANGED <<settings, left_controller, right_controller, tracked_devices,
                   inits, stream, health>>

\* SetBitrateParameters with hmd and listener present, up to line 313 / 316:
\* the mode flag is written.
SetBitrateParameters_Flag(bitrate_mbs, adaptive_bitrate_enabled, bitrate_max) ==
    /\ ~crashed
    /\ pc = "idle"
    /\ hmd # Null
    /\ m_Listener # Null
    /\ m_Listener' = [m_Listener EXCEPT
                          !.m_enableAdaptiveBitrate = adaptive_bitrate_enabled]
    /\ pc' = "SetBitrateParameters"
    /\ UNCHANGED vulkan
    /\ local' = [bitrate_mbs |-> bitrate_mbs,
                 adaptive_bitrate_enabled |-> adaptive_bitrate_enabled,
                 bitrate_max |-> bitrate_max]
    /\ op' = "SetBitrateParameters"
    /\ args' = local'
    /\ trace' = <<>>
    /\ UNCHANGED <<settings, provider, m_encoder, lastFrame, lossSinceFrame,
                   health>>

\* SetBitrateParameters, line 314 / 317: the value that goes with the flag.
SetBitrateParameters_Value ==
    /\ ~crashed
    /\ pc = "SetBitrateParameters"
    /\ m_Listener # Null
    /\ m_Listener' = IF local.adaptive_bitrate_enabled
                     THEN [m_Listener EXCEPT
                              !.m_adaptiveBitrateMaximum = local.bitrate_max]
                     ELSE [m_Listener EXCEPT !.m_bitrate = local.bitrate_mbs]
    /\ pc' = "idle"
    /\ UNCHANGED vulkan
    /\ local' = Null
    /\ op' = "SetBitrateParameters"
    /\ args' = local
    /\ trace' = <<>>
    /\ UNCHANGED <<settings, provider, m_encoder, lastFrame, lossSinceFrame,
                   health>>

\* Pose and bitrate writers on one thread, their readers on another; the
\* driver's lifecycle calls are made while no binding is in progress.
NextRace ==
    \/ /\ pc = "idle"
       /\ DriverProvider_Init
       /\ UNCHANGED <<threads, vulkan>>
    \/ /\ pc = "idle"
       /\ Cleanup
       /\ UNCHANGED <<threads, vulkan>>
    \/ /\ pc = "idle"
       /\ Activate
       /\ UNCHANGED <<threads, vulkan>>
    \/ /\ pc = "idle"
       /\ InitializeStreaming
       /\ UNCHANGED <<threads, vulkan>>
    \/ \E pose \in Poses : OnPoseUpdated_Begin(1, pose)
    \/ OnPoseUpdated_End
    \/ /\ GetPose
       /\ UNCHANGED <<threads, vulkan>>
    \/ \E b \in bitrateMinimum..MaxBitrate, a \in BOOLEAN,
          m \in bitrateMinimum..MaxBitrate : SetBitrateParameters_Flag(b, a, m)
    \/ SetBitrateParameters_Value
    \/ /\ \E high \in BOOLEAN : ReportNetworkLatency(high)
       /\ UNCHANGED <<threads, vulkan>>

SpecRace == InitBitrate /\ [][NextRace]_vars

\* Cold start: deliveries of every array and pose queries on one thread.
NextColdStart ==
    \/ NextRoute
    \/ /\ GetPose
       /\ UNCHANGED <<threads, vulkan>>

SpecColdStart == InitPose /\ [][NextColdStart]_vars

\* Stopping from another thread.  A binding first tests the pointers it needs
\* (its if condition) and then calls through them; DriverProvider::Cleanup on
\* the host's thread can run between the two.
Bindings ==
    {"SetTracking", "ReportNetworkLatency", "VideoErrorReportReceive",
     "RequestIDR", "CaptureFrame", "SetBitrateParameters"}

\* The if condition of binding b (for SetTracking: of a head motion).
Passes(b) ==
    CASE b = "SetTracking" -> hmd # Null
      [] b \in {"ReportNetworkLatency", "VideoErrorReportReceive",
                "SetBitrateParameters"} -> hmd # Null /\ m_Listener # Null
      [] b = "RequestIDR" -> hmd # Null /\ m_encoder # Null
      [] b = "CaptureFrame" ->
            platform # "macos" /\ hmd # Null /\ m_encoder # Null

\* The arguments a call of binding b is made with.
CallArgs(b) ==
    CASE b = "SetTracking" -> {<<[deviceID |-> HEAD_ID, pose |-> "tilted"]>>}
      [] b = "ReportNetworkLatency" -> BOOLEAN
      [] b = "SetBitrateParameters" ->
            {[bitrate_mbs |-> MaxBitrate, adaptive_bitrate_enabled |-> a,
              bitrate_max |-> MaxBitrate] : a \in BOOLEAN}
      [] OTHER -> {Null}

\* Binding b has evaluated its if condition to true and is about to make the
\* call inside the if.
Binding_Test(b, a) ==
    /\ ~crashed
    /\ pc = "idle"
    /\ Passes(b)
    /\ pc' = b
    /\ UNCHANGED vulkan
    /\ local' = a
    /\ UNCHANGED <<settings, provider, stream, op, args, trace, health>>

\* The call inside the if: with the pointers still set this is all the
\* binding does; with a pointer that has been reset in between, the call goes
\* through an empty shared_ptr to an object that has been destroyed, after
\* which the process either dies or goes on.
Binding_Call ==
    /\ pc \in Bindings
    /\ IF Passes(pc)
       THEN CASE pc = "SetTracking" -> SetTracking(1, local)
              [] pc = "ReportNetworkLatency" -> ReportNetworkLatency(local)
              [] pc = "VideoErrorReportReceive" -> VideoErrorReportReceive
              [] pc = "RequestIDR" -> RequestIDR
              [] pc = "CaptureFrame" -> CaptureFrame
              [] pc = "SetBitrateParameters" ->
                    SetBitrateParameters(local.bitrate_mbs,
                                         local.adaptive_bitrate_enabled,
                                         local.bitrate_max)
       ELSE /\ ~crashed
            /\ fault' = "released"
            /\ crashed' \in BOOLEAN
            /\ op' = pc
            /\ args' = Null
            /\ trace' = <<>>
            /\ UNCHANGED <<settings, provider, stream>>
    /\ pc' = "idle"
    /\ UNCHANGED vulkan
    /\ local' = Null

NextStop ==
    \/ /\ pc = "idle"
       /\ DriverProvider_Init
       /\ UNCHANGED <<threads, vulkan>>
    \/ /\ Cleanup
       /\ UNCHANGED <<threads, vulkan>>
    \/ /\ pc = "idle"
       /\ Activate
       /\ UNCHANGED <<threads, vulkan>>
    \/ /\ pc = "idle"
       /\ InitializeStreaming
       /\ UNCHANGED <<threads, vulkan>>
    \/ \E b \in Bindings : \E a \in CallArgs(b) : Binding_Test(b, a)
    \/ Binding_Call

SpecStop == InitBitrate /\ [][NextStop]_vars

\* ------------------------------------------------- encoder context (linux)
\* One more / one fewer resource of a kind acquired and not released.
Acquire(l, kind) == [l EXCEPT ![kind] = @ + 1]
Release(l, kind) == [l EXCEPT ![kind] = @ - 1]

\* alvr::VkContext::VkContext.  deviceFound: a physical device matches
\* deviceName; nvidia: its vendor id is 0x10de; force_sw_encoding: the
\* setting of that name; initOk: av_hwdevice_ctx_init returns 0.  A
\* constructor that throws leaves no object, and its destructor does not run.
VkContext_ctor(deviceFound, nvidia, force_sw_encoding, initOk) ==
    /\ ~crashed
    /\ vkContext = Null
    /\ live.instance < MaxContexts
    /\ LET withInstance == Acquire(live, "instance")
           withDevice == Acquire(withInstance, "device")
           withCtx == Acquire(withDevice, "hwdevice")
           drmContext == ~nvidia /\ ~force_sw_encoding
       IN IF ~deviceFound
          THEN /\ live' = withInstance
               /\ vkContext' = Null
               /\ trace' = <<"vkCreateInstance", "throw">>
          ELSE /\ live' = withCtx
               /\ vkContext' = IF initOk
                               THEN [drmContext |-> drmContext]
                               ELSE Null
               /\ trace' = <<"vkCreateInstance", "vkCreateDevice",
                             "av_hwdevice_ctx_alloc", "av_hwdevice_ctx_init">>
                           \o (IF initOk THEN <<>> ELSE <<"throw">>)
    /\ op' = "VkContext"
    /\ args' = [deviceFound |-> deviceFound, nvidia |-> nvidia,
                force_sw_encoding |-> force_sw_encoding, initOk |-> initOk]
    /\ UNCHANGED <<settings, provider, stream, health, threads, vkFrameCtx>>

\* alvr::VkContext::~VkContext
VkContext_dtor ==
    /\ ~crashed
    /\ vkContext # Null
    /\ vkContext' = Null
    /\ live' = Release(Release(Release(live, "hwdevice"), "device"), "instance")
    /\ trace' = <<"av_buffer_unref", "vkDestroyDevice", "vkDestroyInstance">>
    /\ op' = "~VkContext"
    /\ args' = Null
    /\ UNCHANGED <<settings, provider, stream, health, threads, vkFrameCtx>>

\* alvr::VkFrameCtx::VkFrameCtx.  allocOk: av_hwframe_ctx_alloc returns a
\* buffer; formatOk: vk_format_to_av_format finds the format (it throws
\* otherwise); initOk: av_hwframe_ctx_init does not fail.
VkFrameCtx_ctor(allocOk, formatOk, initOk) ==
    /\ ~crashed
    /\ vkContext # Null
    /\ vkFrameCtx = Null
    /\ live.hwframes < MaxContexts
    /\ IF ~allocOk
       THEN /\ live' = live
            /\ vkFrameCtx' = Null
            /\ trace' = <<"av_hwframe_ctx_alloc", "throw">>
       ELSE IF ~formatOk
            THEN /\ live' = Acquire(live, "hwframes")
                 /\ vkFrameCtx' = Null
                 /\ trace' = <<"av_hwframe_ctx_alloc", "vk_format_to_av_format",
                               "throw">>
            ELSE IF ~initOk
                 THEN /\ live' = live
                      /\ vkFrameCtx' = Null
                      /\ trace' = <<"av_hwframe_ctx_alloc",
                                    "vk_format_to_av_format",
                                    "av_hwframe_ctx_init", "av_buffer_unref",
                                    "throw">>
                 ELSE /\ live' = Acquire(live, "hwframes")
                      /\ vkFrameCtx' = [drmContext |-> vkContext.drmContext]
                      /\ trace' = <<"av_hwframe_ctx_alloc",
                                    "vk_format_to_av_format",
                                    "av_hwframe_ctx_init">>
    /\ op' = "VkFrameCtx"
    /\ args' = [allocOk |-> allocOk, formatOk |-> formatOk, initOk |-> initOk]
    /\ UNCHANGED <<settings, provider, stream, health, threads, vkContext>>

\* alvr::VkFrameCtx::~VkFrameCtx
VkFrameCtx_dtor ==
    /\ ~crashed
    /\ vkFrameCtx # Null
    /\ vkFrameCtx' = Null
    /\ live' = Release(live, "hwframes")
    /\ trace' = <<"av_buffer_unref">>
    /\ op' = "~VkFrameCtx"
    /\ args' = Null
    /\ UNCHANGED <<settings, provider, stream, health, threads, vkContext>>

NextVulkan ==
    \/ \E deviceFound \in BOOLEAN, nvidia \in BOOLEAN,
          force_sw_encoding \in BOOLEAN, initOk \in BOOLEAN :
            VkContext_ctor(deviceFound, nvidia, force_sw_encoding, initOk)
    \/ VkContext_dtor
    \/ \E allocOk \in BOOLEAN, formatOk \in BOOLEAN, initOk \in BOOLEAN :
            VkFrameCtx_ctor(allocOk, formatOk, initOk)
    \/ VkFrameCtx_dtor

SpecVulkan == InitBitrate /\ [][NextVulkan]_vars

\* ------------------------------------------------------------------ claims

\* C1: a FEC-failure notice is non-fatal in every driver state: once
\* VideoErrorReportReceive has run, it has not used an absent encoder and the
\* process is still running.
C1_FecNoticeNonFatal ==
    (op = "VideoErrorReportReceive") => (fault # "m_encoder" /\ ~crashed)

\* C2: when CEncoder::Initialize failed in StartStreaming (of an activated
\* HMD, all components in place), streaming has not started: the encoder was
\* neither started nor told OnStreamStart nor handed to the direct-mode
\* component, and the session is not marked as streaming.
C2_EncoderInitFailureIsFatal ==
    (hmd # Null /\ m_encoder # Null /\ m_encoder.initFailed /\ fault = "none")
        => /\ ~m_encoder.started
           /\ ~m_encoder.streamStart
           /\ ~m_encoder.handedToDirectMode
           /\ ~hmd.m_streamComponentsInitialized

\* C3: once StartStreaming has completed on an OvrHmd, a further
\* InitializeStreaming changes neither the listener nor the encoder and makes
\* no call, and no OvrHmd ever creates more than one listener, creates more
\* than one encoder or starts its encoder more than once.
C3_StartIsIdempotent ==
    /\ [](hmd # Null => /\ hmd.listenersCreated <= 1
                        /\ hmd.encodersCreated <= 1
                        /\ hmd.encoderStarts <= 1)
    /\ [][(hmd # Null /\ hmd.m_streamComponentsInitialized
             /\ op' = "InitializeStreaming")
          => /\ m_Listener' = m_Listener
             /\ m_encoder' = m_encoder
             /\ trace' = <<>>]_vars

C3_Witness ==
    /\ hmd # Null
    /\ op = "InitializeStreaming"
    /\ hmd.m_streamComponentsInitialized
    /\ hmd.startStreamingCalls >= 2
    /\ hmd.listenersCreated = 1
    /\ hmd.encodersCreated = 1

\* C4: every VideoErrorReportReceive made with hmd and listener present calls
\* OnFecFailure once and then OnPacketLoss once; without hmd or listener it
\* calls neither.
C4_FecNoticeRecordedAndForwarded ==
    [][(op' = "VideoErrorReportReceive")
       => trace' = IF hmd # Null /\ m_Listener # Null
                   THEN <<"OnFecFailure", "OnPacketLoss">>
                   ELSE <<>>]_vars

C6_MonotonicPoseIngestion ==
    /\ [](hmd # Null =>
            \A i \in 1..(Len(hmd.m_poseHistory) - 1) :
                hmd.m_poseHistory[i].ts < hmd.m_poseHistory[i + 1].ts)
    /\ [][(op' = "SetTracking" /\ hmd # Null
             /\ args'.ts <= LatestTimestamp(hmd.m_poseHistory))
          => /\ hmd'.m_poseHistory = hmd.m_poseHistory
             /\ hmd'.m_pose = hmd.m_pose]_vars

\* The device a motion's id names is there to receive it.
SinkExists(deviceID) ==
    \/ deviceID = HEAD_ID /\ hmd # Null
    \/ deviceID = LEFT_HAND_ID /\ left_controller # Null
    \/ deviceID = RIGHT_HAND_ID /\ right_controller # Null

SinkCall(deviceID) ==
    CASE deviceID = HEAD_ID -> "hmd.OnPoseUpdated"
      [] deviceID = LEFT_HAND_ID -> "left.onPoseUpdate"
      [] deviceID = RIGHT_HAND_ID -> "right.onPoseUpdate"
      [] OTHER -> "none"

IsSinkCall(c) ==
    c \in {"hmd.OnPoseUpdated", "left.onPoseUpdate", "right.onPoseUpdate"}

SendsFor(i) == {k \in 1..Len(trace) : trace[k].event = i}

\* C8: a RunFrame call sends at most once per drained event and in the order
\* of the events; an event is sent to LEFT_CONTROLLER_HAPTIC_ID exactly when it
\* is a haptic vibration whose container is the existing left controller's,
\* to RIGHT_CONTROLLER_HAPTIC_ID exactly when it is the existing right
\* controller's, and is not sent otherwise.
C8_HapticRouting ==
    (op = "RunFrame") =>
        /\ \A i \in 1..Len(args) :
            /\ Cardinality(SendsFor(i)) <= 1
            /\ (\E k \in SendsFor(i) : trace[k].path = LEFT_CONTROLLER_HAPTIC_ID)
                 <=> /\ args[i].eventType = HapticVibration
                     /\ left_controller # Null
                     /\ args[i].containerHandle = left_controller.prop_container
            /\ (\E k \in SendsFor(i) : trace[k].path = RIGHT_CONTROLLER_HAPTIC_ID)
                 <=> /\ args[i].eventType = HapticVibration
                     /\ right_controller # Null
                     /\ args[i].containerHandle = right_controller.prop_container
        /\ \A k \in 1..Len(trace) :
            /\ trace[k].event \in 1..Len(args)
            /\ trace[k].path \in {LEFT_CONTROLLER_HAPTIC_ID, RIGHT_CONTROLLER_HAPTIC_ID}
            /\ k > 1 => trace[k - 1].event < trace[k].event

C8_Witness ==
    /\ op = "RunFrame"
    /\ Len(args) = 2
    /\ args[1].containerHandle = ContainerOf(RIGHT_HAND_ID)
    /\ args[2].containerHandle = ContainerOf(LEFT_HAND_ID)
    /\ Len(trace) = 2
    /\ trace[1].path = RIGHT_CONTROLLER_HAPTIC_ID
    /\ trace[2].path = LEFT_CONTROLLER_HAPTIC_ID

\* A duration of at least m_hapticsMinDuration.
AtLeastMinimum(duration) ==
    /\ duration.kind = "finite"
    /\ duration.num >= hapticsMinDuration * duration.den

\* C9: every pulse of duration 0 that RunFrame forwards to HapticsSend is sent
\* with a duration of at least m_hapticsMinDuration, and a pulse of duration 0
\* for an existing controller is sent.
C9_HapticDurationFloor ==
    (op = "RunFrame") =>
        /\ \A k \in 1..Len(trace) :
             args[trace[k].event].fDurationSeconds = 0
                => AtLeastMinimum(trace[k].duration)
        /\ \A i \in 1..Len(args) :
             (/\ args[i].eventType = HapticVibration
              /\ left_controller # Null
              /\ args[i].containerHandle = left_controller.prop_container)
                => SendsFor(i) # {}


\* C10: while adaptive mode is enabled the bitrate in effect lies between the
\* configured minimum and the operator-configured maximum.
C10_BitrateWithinLimits ==
    (m_Listener # Null /\ m_Listener.m_enableAdaptiveBitrate)
        => /\ bitrateMinimum <= m_Listener.m_bitrate
           /\ m_Listener.m_bitrate <= m_Listener.m_adaptiveBitrateMaximum

\* The bitrate state of a listener: current bitrate, adaptive flag, maximum.
BitrateState(l) ==
    <<l.m_bitrate, l.m_enableAdaptiveBitrate, l.m_adaptiveBitrateMaximum>>

\* C11: the bitrate state of a listener is written only by the controller's
\* own ReportNetworkLatency, following a network-feedback event: a step of
\* any other handler leaves the three fields of an existing listener as they
\* were.
C11_SingleWriterBitrate ==
    [][(m_Listener # Null /\ m_Listener' # Null
          /\ BitrateState(m_Listener') # BitrateState(m_Listener))
       => op' = "ReportNetworkLatency"]_vars

\* C12: the HMD's current pose and the bitrate fields are read only while no
\* other thread is in the middle of writing them: GetPose never runs while
\* OnPoseUpdated is inside its assignment to m_pose, and the controller
\* never reads the bitrate fields while SetBitrateParameters has written the
\* flag but not yet the value that goes with it.
C12_SharedStateInCriticalSection ==
    /\ (op = "GetPose") => (pc # "OnPoseUpdated")
    /\ (op = "ReportNetworkLatency") => (pc # "SetBitrateParameters")

\* C13: a binding that runs concurrently with DriverProvider::Cleanup never
\* calls through a pointer to an HMD, listener or encoder that Cleanup has
\* released in the meantime.
C13_StopSafeFromAnotherThread ==
    fault # "released"

\* The number of times call x occurs in the calls of a handler.
Count(calls, x) == Cardinality({k \in 1..Len(calls) : calls[k] = x})

\* C14: a Cleanup that directly follows a Cleanup makes no call and releases
\* nothing; a handler stops an encoder at most once and only one that exists
\* and is gone afterwards, shuts the runtime down at most once and only for
\* an OvrHmd that is gone afterwards, and resets encoder and listener at most
\* once each and only when they exist.
C14_IdempotentStop ==
    /\ [][(op = "Cleanup" /\ op' = "Cleanup")
          => /\ trace' = <<>>
             /\ hmd = Null /\ left_controller = Null /\ right_controller = Null
             /\ m_encoder = Null /\ m_Listener = Null
             /\ UNCHANGED <<provider, stream>>]_vars
    /\ [][(op' \in {"Cleanup", "Init"})
          => /\ \A x \in {"ShutdownRuntime", "encoder.Stop", "encoder.reset",
                           "listener.reset"} : Count(trace', x) <= 1
             /\ Count(trace', "ShutdownRuntime") = 1 => hmd # Null
             /\ Count(trace', "encoder.Stop") = 1
                   => m_encoder # Null /\ m_encoder' = Null
             /\ Count(trace', "encoder.reset") = 1
                   => m_encoder # Null /\ m_encoder' = Null
             /\ Count(trace', "listener.reset") = 1
                   => m_Listener # Null /\ m_Listener' = Null]_vars

C14_Witness ==
    /\ op = "Cleanup"
    /\ trace = <<>>
    /\ inits >= 1
    /\ hmd = Null
    /\ fault = "none"

\* Call x is made, and made before every call y, in the calls of a handler.
Precedes(calls, x, y) ==
    /\ \E i \in 1..Len(calls) : calls[i] = x
    /\ \A i, j \in 1..Len(calls) : (calls[i] = x /\ calls[j] = y) => i < j

\* C15: a teardown that releases the encoder has stopped it before, and has
\* stopped it before it releases the listener; a CaptureFrame or RequestIDR
\* made after Cleanup, while no OvrHmd is held, reaches no encoder and starts
\* no frame.
C15_OrderlyTeardown ==
    /\ []((op \in {"Cleanup", "Init"}
            /\ \E k \in 1..Len(trace) : trace[k] = "encoder.reset")
          => /\ Precedes(trace, "encoder.Stop", "encoder.reset")
             /\ Precedes(trace, "encoder.Stop", "listener.reset"))
    /\ [][(hmd = Null /\ op' \in {"CaptureFrame", "RequestIDR"})
          => /\ trace' = <<>>
             /\ m_encoder' = Null
             /\ lastFrame' = Null]_vars

C15_Witness ==
    /\ op = "Cleanup"
    /\ trace = <<"ShutdownRuntime", "encoder.Stop", "encoder.reset",
                 "listener.reset">>

\* C16: a SetBitrateParameters call made with hmd and listener present and
\* adaptive = true sets the adaptive flag and the adaptive maximum and leaves
\* the fixed bitrate as it was; with adaptive = false it clears the flag, sets
\* the bitrate to bitrate_mbs and leaves the maximum as it was; without hmd or
\* listener it changes nothing.  After a call the mode of an existing
\* listener is the flag of that call, and a call made without a listener
\* leaves it so: the mode is the flag of the last call made with a listener.
C16_SetBitrateParametersFrame ==
    /\ [][(op' = "SetBitrateParameters")
          => /\ m_Listener' =
                   IF hmd # Null /\ m_Listener # Null
                   THEN IF args'.adaptive_bitrate_enabled
                        THEN [m_Listener EXCEPT
                                 !.m_enableAdaptiveBitrate = TRUE,
                                 !.m_adaptiveBitrateMaximum = args'.bitrate_max]
                        ELSE [m_Listener EXCEPT
                                 !.m_enableAdaptiveBitrate = FALSE,
                                 !.m_bitrate = args'.bitrate_mbs]
                   ELSE m_Listener
             /\ UNCHANGED <<provider, m_encoder, health>>]_vars
    /\ []((op = "SetBitrateParameters" /\ m_Listener # Null)
          => m_Listener.m_enableAdaptiveBitrate = args.adaptive_bitrate_enabled)

C16_Witness ==
    /\ op = "SetBitrateParameters"
    /\ m_Listener # Null
    /\ args.adaptive_bitrate_enabled
    /\ m_Listener.m_enableAdaptiveBitrate
    /\ m_Listener.m_adaptiveBitrateMaximum = args.bitrate_max
    /\ m_Listener.m_adaptiveBitrateMaximum # MaxBitrate
    /\ m_Listener.m_bitrate # args.bitrate_mbs

\* C17: SetOpenvrProperty and SetBattery with a path that is a key of
\* tracked_devices act on the device registered under that path and on no
\* other (set_prop on that device; the gauge and the charging flag on that
\* device's property container), and with a path that is no key they make no
\* call; neither changes the driver's state.
C17_PropertyRouting ==
    [][(op' \in {"SetOpenvrProperty", "SetBattery"})
       => /\ UNCHANGED <<provider, stream, health>>
          /\ IF Registered(args'.path)
             THEN /\ Alive(args'.path)
                  /\ op' = "SetOpenvrProperty"
                        => /\ Len(trace') = 1
                           /\ trace'[1].device = args'.path
                           /\ trace'[1].gen = DeviceAt(args'.path).gen
                  /\ op' = "SetBattery"
                        => trace' = BatteryCalls(
                                        DeviceAt(args'.path).prop_container,
                                        args'.gauge_value, args'.is_plugged)
             ELSE trace' = <<>>]_vars

\* C19: every entry of tracked_devices points at a device that exists: no
\* entry outlives the device it was made for, and after a further Init each
\* key maps to the device that Init created.
C19_DeviceTableLiveness ==
    \A id \in DOMAIN tracked_devices : Registered(id) => Alive(id)

\* C18: a newly constructed OvrHmd holds the identity pose; its pose changes
\* only in a SetTracking call that carries a head motion while the OvrHmd is
\* activated; and GetPose returns the stored pose as it is and changes
\* nothing.  So until the first head pose is accepted every GetPose returns
\* the identity pose.
C18_ColdStartIdentityPose ==
    /\ [][(hmd' # Null /\ (hmd = Null \/ hmd.gen # hmd'.gen))
          => hmd'.m_pose = IdentityPose]_vars
    /\ [][(hmd # Null /\ hmd' # Null /\ hmd'.gen = hmd.gen
             /\ hmd'.m_pose # hmd.m_pose)
          => /\ op' = "SetTracking"
             /\ hmd.object_id # InvalidIndex
             /\ \E i \in 1..Len(args'.ids) : args'.ids[i] = HEAD_ID]_vars
    /\ [][(op' = "GetPose")
          => /\ trace' = <<hmd.m_pose>>
             /\ UNCHANGED <<provider, stream, health>>]_vars

C18_Witness ==
    /\ op = "GetPose"
    /\ hmd # Null
    /\ hmd.object_id # InvalidIndex
    /\ hmd.m_poseHistory = <<>>
    /\ trace = <<IdentityPose>>

\* C20: in every driver state SetButton calls the left controller's
\* SetButton exactly when the path is one of the left controller's button ids
\* and the left controller exists, the right controller's exactly when it is
\* one of the right's and the right controller exists, and otherwise makes no
\* call and has no effect: it never goes through an absent controller.
C20_ButtonNeverReachesAbsentDevice ==
    [][(op' = "SetButton")
       => /\ trace' =
                IF args'.path \in LEFT_CONTROLLER_BUTTON_IDS
                   /\ left_controller # Null
                THEN <<[call |-> "left_controller.SetButton",
                        path |-> args'.path, value |-> args'.value]>>
                ELSE IF args'.path \in RIGHT_CONTROLLER_BUTTON_IDS
                        /\ right_controller # Null
                     THEN <<[call |-> "right_controller.SetButton",
                             path |-> args'.path, value |-> args'.value]>>
                     ELSE <<>>
          /\ UNCHANGED <<provider, stream, health>>]_vars

\* The positions of the head motions in the array of a SetTracking call.
HeadIndexes(ids) == {i \in 1..Len(ids) : ids[i] = HEAD_ID}

\* The last of them.
LastHeadIndex(ids) ==
    CHOOSE i \in HeadIndexes(ids) : \A j \in HeadIndexes(ids) : j <= i

\* C21: a SetTracking call made while the OvrHmd is not activated leaves the
\* OvrHmd as it is, current pose and pose history included, hands nothing to
\* PoseHistory and reports no pose to the host; made while it is activated,
\* it hands every head motion to PoseHistory and reports every one to the
\* host, and the current pose is then that of the last head motion.
C21_PoseGatedByActivation ==
    [][(op' = "SetTracking" /\ hmd # Null)
       => LET heads == HeadIndexes(args'.ids)
          IN IF hmd.object_id = InvalidIndex
             THEN /\ hmd' = hmd
                  /\ Count(trace', "PoseHistory.OnPoseUpdated") = 0
                  /\ Count(trace', "TrackedDevicePoseUpdated") = 0
             ELSE /\ Count(trace', "PoseHistory.OnPoseUpdated")
                        = Cardinality(heads)
                  /\ Count(trace', "TrackedDevicePoseUpdated")
                        = Cardinality(heads)
                  /\ hmd'.m_pose = IF heads = {} THEN hmd.m_pose
                                   ELSE args'.poses[LastHeadIndex(args'.ids)]
                  /\ hmd'.object_id = hmd.object_id]_vars

C21_Witness ==
    /\ op = "SetTracking"
    /\ hmd # Null
    /\ hmd.m_baseComponentsInitialized
    /\ hmd.object_id = InvalidIndex
    /\ args.ids = <<HEAD_ID>>
    /\ args.poses = <<"tilted">>
    /\ hmd.m_pose = IdentityPose
    /\ hmd.m_poseHistory = <<>>
    /\ trace = <<"hmd.OnPoseUpdated">>

\* C22: an OvrHmd signals DriverReadyIdle at most once, and an Activate
\* returns VRInitError_None only when the base components have been set up
\* and DriverReadyIdle has been signalled, in this Activate or an earlier
\* one: after an Activate that failed to create the graphics device no
\* Activate reports success.
C22_OneTimeBaseInit ==
    /\ hmd # Null => hmd.readyIdle <= 1
    /\ (op = "Activate" /\ trace[Len(trace)] = "VRInitError_None")
          => hmd.readyIdle >= 1

\* The resources the existing objects hold: one of each kind per object.
Owned ==
    [instance |-> IF vkContext # Null THEN 1 ELSE 0,
     device |-> IF vkContext # Null THEN 1 ELSE 0,
     hwdevice |-> IF vkContext # Null THEN 1 ELSE 0,
     hwframes |-> IF vkFrameCtx # Null THEN 1 ELSE 0]

\* C23: every resource acquired and not released is held by an existing
\* VkContext or VkFrameCtx: a constructor that throws has released what it
\* acquired, and a destructor releases each resource of its object, the
\* destructor of VkContext with exactly one call per resource.
C23_NoLeakOnFailedSetUp ==
    /\ live = Owned
    /\ (op = "~VkContext")
          => \A x \in {"av_buffer_unref", "vkDestroyDevice", "vkDestroyInstance"} :
                Count(trace, x) = 1

====
